---- MODULE Spec2Model ----
(***************************************************************************)
(* sfm/obj_file_io.py: dump / safe_dump / load of a Python object to a     *)
(* single file, and the decorators that bind a dumper or loader function.  *)
(*                                                                         *)
(* The filesystem is modelled with directory entries (names) that point to *)
(* inodes (data), so that an open handle keeps the file it opened when the *)
(* name is renamed over.  f.write(b) reaches the file byte by byte: the    *)
(* prefixes of b are the contents an interrupted or failed write leaves.   *)
(* shutil.move of <path>.tmp onto <path> (same directory) is os.rename.    *)
(* prt_console and time.clock only log and are not modelled.               *)
(***************************************************************************)
EXTENDS Integers, Sequences, FiniteSets, TLC

\* ---- bounds -------------------------------------------------------------
MaxValLen == 1      \* longest object (as a byte string) a caller dumps
MaxCalls == 2       \* calls made one after the other by one caller

\* ---- bytes, zlib and the two codecs -------------------------------------
AdlerMod == 3       \* modulus of the checksum that ends a zlib stream
ZHDR == 2           \* first byte of a zlib stream
PickleHdr == 0      \* first byte of a pickle

Byte == 0..(AdlerMod - 1)

RECURSIVE SumSeq(_)
SumSeq(s) == IF s = <<>> THEN 0 ELSE Head(s) + SumSeq(Tail(s))

\* zlib's Adler checksum starts at 1
Adler(s) == (1 + SumSeq(s)) % AdlerMod

\* zlib.compress(b): header, payload, checksum
Compress(s) == <<ZHDR>> \o s \o <<Adler(s)>>

\* zlib.decompress(b): raises zlib.error unless b is a well-formed stream
ValidZ(s) ==
    /\ Len(s) >= 2
    /\ s[1] = ZHDR
    /\ s[Len(s)] = Adler(SubSeq(s, 2, Len(s) - 1))

Decompress(s) == SubSeq(s, 2, Len(s) - 1)

NotAFunction == "not_a_function"
Unbound == "unbound"
Dumpers == {"pickle_dumps", "raw_dumps", NotAFunction}
Loaders == {"pickle_loads", "raw_loads", NotAFunction}

\* a check that accepts anything
IsFunctionAlways(f) == TRUE

\* inspect.isfunction(f)
IsFunction(f) == f # NotAFunction

\* the codec a dumper or loader belongs to
Family(f) ==
    CASE f \in {"pickle_dumps", "pickle_loads"} -> "pickle"
      [] f \in {"raw_dumps", "raw_loads"} -> "raw"
      [] OTHER -> "none"

\* dumper_func(obj): pickle.dumps-like (header + payload), or a dumper of
\* bytes objects that returns them as they are
Encode(f, obj) == IF f = "pickle_dumps" THEN <<PickleHdr>> \o obj ELSE obj

\* loader_func(b) raises on bytes that are not a pickle; the raw loader
\* accepts every byte string
Decodable(f, s) == IF f = "pickle_loads" THEN Len(s) >= 1 /\ s[1] = PickleHdr ELSE TRUE

Decode(f, s) == IF f = "pickle_loads" THEN Tail(s) ELSE s

\* the objects callers dump: non-empty strings of non-zero bytes, and a
\* bytes object that is itself a zlib stream
Values == UNION {[1..n -> Byte \ {0}] : n \in 1..MaxValLen} \cup {Compress(<<>>)}

\* line 79, 80 and 170: the defaults of compress, overwrite and decompress
DefaultCompress == TRUE
DefaultOverwrite == FALSE
DefaultDecompress == TRUE

\* the compress flag is ignored
WrittenRaw(f, obj, compress) == Encode(f, obj)

\* the bytes _dump writes for obj
Written(f, obj, compress) ==
    IF compress THEN Compress(Encode(f, obj)) ELSE Encode(f, obj)

\* ---- filesystem ---------------------------------------------------------
Procs == {1, 2}
Paths == {"p", "p.tmp"}
NInodes == Cardinality(Paths) + Cardinality(Procs)
Inodes == 1..NInodes
NoFile == <<-1>>    \* content of a path that does not exist

Ops == {"dump", "safe_dump", "load"}

VARIABLES
    names,      \* directory: path -> inode, 0 when the path does not exist
    data,       \* inode -> bytes
    codec,      \* op -> the function bound by its decorator
    pc,         \* process -> position in the running call
    cur,        \* process -> the call running or last finished
    prev,       \* process -> the call finished before cur
    b,          \* process -> local b of _dump / _load
    fd,         \* process -> inode of the open handle, 0 when none
    off,        \* process -> write position of the handle
    ret,        \* process -> outcome of cur
    pre,        \* process -> content of p and p.tmp when cur started
    trace,      \* process -> filesystem and codec operations done by cur
    ncalls,     \* process -> number of calls started
    lastMove    \* the process whose rename happened last, 0 when none

vars == <<names, data, codec, pc, cur, prev, b, fd, off, ret, pre, trace, ncalls, lastMove>>

Content(path) == IF names[path] = 0 THEN NoFile ELSE data[names[path]]

\* os.path.exists
Exists(path) == names[path] # 0

NoCall == [op |-> "none", obj |-> <<>>, compress |-> FALSE, overwrite |-> FALSE]
NoPrev == [op |-> "none", obj |-> <<>>, compress |-> FALSE, overwrite |-> FALSE, kind |-> "none"]

Outcome(kind, val) == [kind |-> kind, val |-> val]

\* safe_dump writes to the target itself
TargetDirect(i) == "p"

\* every dump writes to the temporary name
TargetTemp(i) == "p.tmp"

\* abspath of the _dump that cur runs: safe_dump dumps to "%s.tmp" % abspath
Target(i) == IF cur[i].op = "safe_dump" THEN "p.tmp" ELSE "p"

\* an inode no name and no handle refers to
Referenced(nm, handles) == {nm[q] : q \in Paths} \cup {handles[j] : j \in Procs}
FreeInode(nm, handles) ==
    CHOOSE n \in Inodes : /\ n \notin Referenced(nm, handles)
                          /\ \A m \in Inodes : m < n => m \in Referenced(nm, handles)

\* an unreferenced inode is gone
Reclaim(nm, handles, d) ==
    [n \in Inodes |-> IF n \in Referenced(nm, handles) THEN d[n] ELSE <<>>]

\* pwrite of one byte at position k (0-based); a gap is filled with zeros
RECURSIVE Zeros(_)
Zeros(n) == IF n <= 0 THEN <<>> ELSE <<0>> \o Zeros(n - 1)

WriteAt(s, k, x) ==
    IF k < Len(s) THEN [s EXCEPT ![k + 1] = x]
    ELSE s \o Zeros(k - Len(s)) \o <<x>>

\* ---- initial states -----------------------------------------------------
OldObj == [k \in 1..MaxValLen |-> 1]

\* p: absent, or a file some earlier dump wrote
InitP == {NoFile} \cup {Written(f, OldObj, c) : f \in {"pickle_dumps", "raw_dumps"}, c \in BOOLEAN}
\* p.tmp: absent, or the truncated leftover of an interrupted safe_dump
InitTmp == {NoFile, <<ZHDR>>}

InitFs(p0, t0) ==
    /\ names = [q \in Paths |-> IF q = "p" THEN (IF p0 = NoFile THEN 0 ELSE 1)
                                 ELSE (IF t0 = NoFile THEN 0 ELSE 2)]
    /\ data = [n \in Inodes |-> IF n = 1 /\ p0 # NoFile THEN p0
                                ELSE IF n = 2 /\ t0 # NoFile THEN t0 ELSE <<>>]

InitProcs ==
    /\ pc = [i \in Procs |-> "idle"]
    /\ cur = [i \in Procs |-> NoCall]
    /\ prev = [i \in Procs |-> NoPrev]
    /\ b = [i \in Procs |-> <<>>]
    /\ fd = [i \in Procs |-> 0]
    /\ off = [i \in Procs |-> 0]
    /\ ret = [i \in Procs |-> Outcome("none", <<>>)]
    /\ pre = [i \in Procs |-> [p |-> NoFile, tmp |-> NoFile]]
    /\ trace = [i \in Procs |-> <<>>]
    /\ ncalls = [i \in Procs |-> 0]
    /\ lastMove = 0

Init ==
    /\ \E p0 \in InitP, t0 \in InitTmp : InitFs(p0, t0)
    /\ codec = [o \in Ops |-> Unbound]
    /\ InitProcs

\* ---- binding ------------------------------------------------------------
\* dump_func / safe_dump_func / load_func: return the wrapper, nothing else
BindTo(o, f) == [codec EXCEPT ![o] = f]

Bind(o, f) ==
    /\ codec[o] = Unbound
    /\ \A i \in Procs : ncalls[i] = 0
    /\ \A o2 \in Ops : codec[o2] # Unbound => Family(codec[o2]) = Family(f)
    /\ codec' = BindTo(o, f)
    /\ UNCHANGED <<names, data, pc, cur, prev, b, fd, off, ret, pre, trace, ncalls, lastMove>>

AllBound == \A o \in Ops : codec[o] # Unbound

\* ---- calls --------------------------------------------------------------
\* wrapper(*args, **kwargs): enter _dump / _safe_dump / _load
Enter(i, call) ==
    /\ pc[i] = "idle"
    /\ AllBound
    /\ pc' = [pc EXCEPT ![i] = "check"]
    /\ prev' = [prev EXCEPT ![i] = [op |-> cur[i].op, obj |-> cur[i].obj,
                                    compress |-> cur[i].compress,
                                    overwrite |-> cur[i].overwrite,
                                    kind |-> ret[i].kind]]
    /\ cur' = [cur EXCEPT ![i] = call]
    /\ b' = [b EXCEPT ![i] = <<>>]
    /\ off' = [off EXCEPT ![i] = 0]
    /\ ret' = [ret EXCEPT ![i] = Outcome("running", <<>>)]
    /\ pre' = [pre EXCEPT ![i] = [p |-> Content("p"), tmp |-> Content("p.tmp")]]
    /\ trace' = [trace EXCEPT ![i] = <<>>]
    /\ ncalls' = [ncalls EXCEPT ![i] = @ + 1]
    /\ UNCHANGED <<names, data, codec, fd, lastMove>>

CallDump(i, limit) ==
    /\ ncalls[i] < limit
    /\ \E obj \in Values, c \in BOOLEAN, ow \in BOOLEAN :
          Enter(i, [op |-> "dump", obj |-> obj, compress |-> c, overwrite |-> ow])

CallSafeDump(i, limit) ==
    /\ ncalls[i] < limit
    /\ \E obj \in Values, c \in BOOLEAN :
          Enter(i, [op |-> "safe_dump", obj |-> obj, compress |-> c, overwrite |-> TRUE])

CallLoad(i, limit) ==
    /\ ncalls[i] < limit
    /\ \E c \in BOOLEAN :
          Enter(i, [op |-> "load", obj |-> <<>>, compress |-> c, overwrite |-> FALSE])

\* the call ends: it returns or raises
Finish(i, kind, val) ==
    /\ pc' = [pc EXCEPT ![i] = "idle"]
    /\ ret' = [ret EXCEPT ![i] = Outcome(kind, val)]

Log(i, ev) == trace' = [trace EXCEPT ![i] = Append(@, ev)]

\* ---- _dump / _load, statement by statement ------------------------------
\* the check is made after the existence test
CheckFuncRaiseLate(i) ==
    /\ pc[i] = "check"
    /\ ~IsFunction(codec[cur[i].op])
    /\ Log(i, "exists")
    /\ Finish(i, "TypeError", <<>>)
    /\ UNCHANGED <<names, data, codec, cur, prev, b, fd, off, pre, ncalls, lastMove>>

\* line 104 / 188: if not inspect.isfunction(...): raise TypeError
CheckFuncRaise(i) ==
    /\ pc[i] = "check"
    /\ ~IsFunction(codec[cur[i].op])
    /\ Finish(i, "TypeError", <<>>)
    /\ UNCHANGED <<names, data, codec, cur, prev, b, fd, off, pre, trace, ncalls, lastMove>>

CheckFuncOk(i) ==
    /\ pc[i] = "check"
    /\ IsFunction(codec[cur[i].op])
    /\ pc' = [pc EXCEPT ![i] = "exists"]
    /\ UNCHANGED <<names, data, codec, cur, prev, b, fd, off, ret, pre, trace, ncalls, lastMove>>

\* the existence of the file is ignored
SkipsNever(exists, overwrite) == FALSE

\* line 109-110: if os.path.exists(abspath): if not overwrite: ... return
SkipsWrite(exists, overwrite) == exists /\ ~overwrite

\* line 109-115: the file exists and overwrite is not allowed: return None
ExistsSkip(i) ==
    /\ pc[i] = "exists"
    /\ cur[i].op \in {"dump", "safe_dump"}
    /\ SkipsWrite(Exists(Target(i)), cur[i].overwrite)
    /\ Log(i, "exists")
    /\ Finish(i, "Skipped", <<>>)
    /\ UNCHANGED <<names, data, codec, cur, prev, b, fd, off, pre, ncalls, lastMove>>

ExistsProceed(i) ==
    /\ pc[i] = "exists"
    /\ cur[i].op \in {"dump", "safe_dump"}
    /\ ~SkipsWrite(Exists(Target(i)), cur[i].overwrite)
    /\ Log(i, "exists")
    /\ pc' = [pc EXCEPT ![i] = "encode"]
    /\ UNCHANGED <<names, data, codec, cur, prev, b, fd, off, ret, pre, ncalls, lastMove>>

\* no existence test: the open of the missing file raises
LoadNotFoundLate(i) ==
    /\ pc[i] = "exists"
    /\ cur[i].op = "load"
    /\ ~Exists("p")
    /\ Log(i, "open")
    /\ Finish(i, "IOError", <<>>)
    /\ UNCHANGED <<names, data, codec, cur, prev, b, fd, off, pre, ncalls, lastMove>>

\* line 193-194: if not os.path.exists(abspath): raise ValueError
LoadNotFound(i) ==
    /\ pc[i] = "exists"
    /\ cur[i].op = "load"
    /\ ~Exists("p")
    /\ Log(i, "exists")
    /\ Finish(i, "ValueError", <<>>)
    /\ UNCHANGED <<names, data, codec, cur, prev, b, fd, off, pre, ncalls, lastMove>>

LoadFound(i) ==
    /\ pc[i] = "exists"
    /\ cur[i].op = "load"
    /\ Exists("p")
    /\ Log(i, "exists")
    /\ pc' = [pc EXCEPT ![i] = "open"]
    /\ UNCHANGED <<names, data, codec, cur, prev, b, fd, off, ret, pre, ncalls, lastMove>>

\* line 119-121: b = dumper_func(obj); if compress: b = zlib.compress(b)
EncodeObj(i) ==
    /\ pc[i] = "encode"
    /\ b' = [b EXCEPT ![i] = Written(codec[cur[i].op], cur[i].obj, cur[i].compress)]
    /\ Log(i, "dumper")
    /\ pc' = [pc EXCEPT ![i] = "open"]
    /\ UNCHANGED <<names, data, codec, cur, prev, fd, off, ret, pre, ncalls, lastMove>>

\* line 119: dumper_func raises; the exception leaves _dump
EncodeFail(i) ==
    /\ pc[i] = "encode"
    /\ Log(i, "dumper")
    /\ Finish(i, "EncodeError", <<>>)
    /\ UNCHANGED <<names, data, codec, cur, prev, b, fd, off, pre, ncalls, lastMove>>

\* open(abspath, "ab"): the bytes are appended to what the file holds
OpenWriteAppend(i) ==
    /\ pc[i] = "open"
    /\ cur[i].op \in {"dump", "safe_dump"}
    /\ LET path == Target(i)
           ino == IF Exists(path) THEN names[path] ELSE FreeInode(names, fd)
       IN /\ names' = [names EXCEPT ![path] = ino]
          /\ data' = [data EXCEPT ![ino] = <<>>]
          /\ fd' = [fd EXCEPT ![i] = ino]
          /\ b' = [b EXCEPT ![i] = (IF Exists(path) THEN data[ino] ELSE <<>>) \o @]
    /\ off' = [off EXCEPT ![i] = 0]
    /\ Log(i, "open")
    /\ pc' = [pc EXCEPT ![i] = "write"]
    /\ UNCHANGED <<codec, cur, prev, ret, pre, ncalls, lastMove>>

\* open(abspath, "r+b"-like): the file is not truncated
OpenWriteNoTrunc(i) ==
    /\ pc[i] = "open"
    /\ cur[i].op \in {"dump", "safe_dump"}
    /\ LET path == Target(i)
           ino == IF Exists(path) THEN names[path] ELSE FreeInode(names, fd)
       IN /\ names' = [names EXCEPT ![path] = ino]
          /\ data' = data
          /\ fd' = [fd EXCEPT ![i] = ino]
    /\ off' = [off EXCEPT ![i] = 0]
    /\ Log(i, "open")
    /\ pc' = [pc EXCEPT ![i] = "write"]
    /\ UNCHANGED <<codec, cur, prev, b, ret, pre, ncalls, lastMove>>

\* line 122: open(abspath, "wb") creates the file or truncates it
OpenWrite(i) ==
    /\ pc[i] = "open"
    /\ cur[i].op \in {"dump", "safe_dump"}
    /\ LET path == Target(i)
           ino == IF Exists(path) THEN names[path] ELSE FreeInode(names, fd)
       IN /\ names' = [names EXCEPT ![path] = ino]
          /\ data' = [data EXCEPT ![ino] = <<>>]
          /\ fd' = [fd EXCEPT ![i] = ino]
    /\ off' = [off EXCEPT ![i] = 0]
    /\ Log(i, "open")
    /\ pc' = [pc EXCEPT ![i] = "write"]
    /\ UNCHANGED <<codec, cur, prev, b, ret, pre, ncalls, lastMove>>

\* line 123: f.write(b), one byte of b reaches the file
WriteChunk(i) ==
    /\ pc[i] = "write"
    /\ off[i] < Len(b[i])
    /\ data' = [data EXCEPT ![fd[i]] = WriteAt(@, off[i], b[i][off[i] + 1])]
    /\ off' = [off EXCEPT ![i] = @ + 1]
    /\ Log(i, "write")
    /\ UNCHANGED <<names, codec, pc, cur, prev, b, fd, ret, pre, ncalls, lastMove>>

\* the failure of the write is swallowed and safe_dump goes on to the move
WriteFailSwallowed(i) ==
    /\ pc[i] = "write"
    /\ off[i] < Len(b[i])
    /\ fd' = [fd EXCEPT ![i] = 0]
    /\ data' = Reclaim(names, fd', data)
    /\ Log(i, "close")
    /\ pc' = [pc EXCEPT ![i] = "move"]
    /\ UNCHANGED <<names, codec, cur, prev, b, off, ret, pre, ncalls, lastMove>>

\* the write raises and the handle is left open (no with statement)
WriteFailLeak(i) ==
    /\ pc[i] = "write"
    /\ off[i] < Len(b[i])
    /\ Finish(i, "IOError", <<>>)
    /\ UNCHANGED <<names, data, codec, cur, prev, b, fd, off, pre, trace, ncalls, lastMove>>

\* line 123: the write raises (disk full); the with statement closes f
WriteFail(i) ==
    /\ pc[i] = "write"
    /\ off[i] < Len(b[i])
    /\ fd' = [fd EXCEPT ![i] = 0]
    /\ data' = Reclaim(names, fd', data)
    /\ Log(i, "close")
    /\ Finish(i, "IOError", <<>>)
    /\ UNCHANGED <<names, codec, cur, prev, b, off, pre, ncalls, lastMove>>

\* line 122-128: end of the with statement; _dump returns b
CloseWrite(i) ==
    /\ pc[i] = "write"
    /\ off[i] = Len(b[i])
    /\ fd' = [fd EXCEPT ![i] = 0]
    /\ data' = Reclaim(names, fd', data)
    /\ Log(i, "close")
    /\ IF cur[i].op = "safe_dump"
       THEN /\ pc' = [pc EXCEPT ![i] = "move"]
            /\ ret' = ret
       ELSE Finish(i, "Bytes", b[i])
    /\ UNCHANGED <<names, codec, cur, prev, b, off, pre, ncalls, lastMove>>

\* a copy that leaves the temporary name in place
RenamedCopy(nm) == [nm EXCEPT !["p"] = nm["p.tmp"]]

\* line 163: shutil.move(abspath_temp, abspath): rename over the target
Renamed(nm) == [nm EXCEPT !["p"] = nm["p.tmp"], !["p.tmp"] = 0]

\* line 163-165: move, then return b
Move(i) ==
    /\ pc[i] = "move"
    /\ Exists("p.tmp")
    /\ names' = Renamed(names)
    /\ data' = Reclaim(names', fd, data)
    /\ lastMove' = i
    /\ Log(i, "rename")
    /\ Finish(i, "Bytes", b[i])
    /\ UNCHANGED <<codec, cur, prev, b, fd, off, pre, ncalls>>

\* line 163: the temporary file is no longer there: shutil.move raises
MoveFail(i) ==
    /\ pc[i] = "move"
    /\ ~Exists("p.tmp")
    /\ Log(i, "rename")
    /\ Finish(i, "IOError", <<>>)
    /\ UNCHANGED <<names, data, codec, cur, prev, b, fd, off, pre, ncalls, lastMove>>

\* line 198: open(abspath, "rb")
OpenRead(i) ==
    /\ pc[i] = "open"
    /\ cur[i].op = "load"
    /\ Exists("p")
    /\ fd' = [fd EXCEPT ![i] = names["p"]]
    /\ Log(i, "open")
    /\ pc' = [pc EXCEPT ![i] = "read"]
    /\ UNCHANGED <<names, data, codec, cur, prev, b, off, ret, pre, ncalls, lastMove>>

\* line 198: the file disappeared after the existence check: open raises
OpenReadFail(i) ==
    /\ pc[i] = "open"
    /\ cur[i].op = "load"
    /\ ~Exists("p")
    /\ Log(i, "open")
    /\ Finish(i, "IOError", <<>>)
    /\ UNCHANGED <<names, data, codec, cur, prev, b, fd, off, pre, ncalls, lastMove>>

\* line 199: b = f.read()
ReadAll(i) ==
    /\ pc[i] = "read"
    /\ b' = [b EXCEPT ![i] = data[fd[i]]]
    /\ Log(i, "read")
    /\ pc' = [pc EXCEPT ![i] = "decompress"]
    /\ UNCHANGED <<names, data, codec, cur, prev, fd, off, ret, pre, ncalls, lastMove>>

\* the decompress flag is ignored
DecompressesNever(decompress) == FALSE

\* line 200: if decompress
Decompresses(decompress) == decompress

\* line 200-201: zlib.decompress(b) raises; the with statement closes f
DecompressFail(i) ==
    /\ pc[i] = "decompress"
    /\ Decompresses(cur[i].compress)
    /\ ~ValidZ(b[i])
    /\ fd' = [fd EXCEPT ![i] = 0]
    /\ data' = Reclaim(names, fd', data)
    /\ Log(i, "close")
    /\ Finish(i, "DecodeError", <<>>)
    /\ UNCHANGED <<names, codec, cur, prev, b, off, pre, ncalls, lastMove>>

\* line 200-201 and the end of the with statement
DecompressOk(i) ==
    /\ pc[i] = "decompress"
    /\ Decompresses(cur[i].compress) => ValidZ(b[i])
    /\ b' = [b EXCEPT ![i] = IF Decompresses(cur[i].compress) THEN Decompress(@) ELSE @]
    /\ fd' = [fd EXCEPT ![i] = 0]
    /\ data' = Reclaim(names, fd', data)
    /\ Log(i, "close")
    /\ pc' = [pc EXCEPT ![i] = "decode"]
    /\ UNCHANGED <<names, codec, cur, prev, off, ret, pre, ncalls, lastMove>>

\* line 202-207: obj = loader_func(b); return obj
DecodeOk(i) ==
    /\ pc[i] = "decode"
    /\ Decodable(codec["load"], b[i])
    /\ Log(i, "loader")
    /\ Finish(i, "Value", Decode(codec["load"], b[i]))
    /\ UNCHANGED <<names, data, codec, cur, prev, b, fd, off, pre, ncalls, lastMove>>

\* line 202: loader_func raises on malformed bytes
DecodeFail(i) ==
    /\ pc[i] = "decode"
    /\ ~Decodable(codec["load"], b[i])
    /\ Log(i, "loader")
    /\ Finish(i, "DecodeError", <<>>)
    /\ UNCHANGED <<names, data, codec, cur, prev, b, fd, off, pre, ncalls, lastMove>>

\* the process is killed inside a call: its handle is closed by the system
Crash(i) ==
    /\ pc[i] # "idle"
    /\ fd' = [fd EXCEPT ![i] = 0]
    /\ data' = Reclaim(names, fd', data)
    /\ Finish(i, "Interrupted", <<>>)
    /\ UNCHANGED <<names, codec, cur, prev, b, off, pre, trace, ncalls, lastMove>>

\* ---- one caller, calls one after the other ------------------------------
Next ==
    \/ \E o \in {"dump", "safe_dump"}, f \in Dumpers : Bind(o, f)
    \/ \E f \in Loaders : Bind("load", f)
    \/ CallDump(1, MaxCalls)
    \/ CallSafeDump(1, MaxCalls)
    \/ CallLoad(1, MaxCalls)
    \/ CheckFuncRaise(1)
    \/ CheckFuncOk(1)
    \/ ExistsSkip(1)
    \/ ExistsProceed(1)
    \/ LoadNotFound(1)
    \/ LoadFound(1)
    \/ EncodeObj(1)
    \/ OpenWrite(1)
    \/ WriteChunk(1)
    \/ CloseWrite(1)
    \/ Move(1)
    \/ OpenRead(1)
    \/ ReadAll(1)
    \/ DecompressFail(1)
    \/ DecompressOk(1)
    \/ DecodeOk(1)
    \/ DecodeFail(1)

Spec == Init /\ [][Next]_vars

\* the decorators were applied to the functions of one codec at import time
InitBound ==
    /\ \E p0 \in InitP, t0 \in InitTmp : InitFs(p0, t0)
    /\ \/ codec = [o \in Ops |-> IF o = "load" THEN "pickle_loads" ELSE "pickle_dumps"]
       \/ codec = [o \in Ops |-> IF o = "load" THEN "raw_loads" ELSE "raw_dumps"]
    /\ InitProcs

\* ---- one caller of safe_dump, interruptions and failures ------------------
NextCrash ==
    \/ CallSafeDump(1, MaxCalls)
    \/ CheckFuncOk(1)
    \/ ExistsProceed(1)
    \/ EncodeObj(1)
    \/ EncodeFail(1)
    \/ OpenWrite(1)
    \/ WriteChunk(1)
    \/ WriteFail(1)
    \/ CloseWrite(1)
    \/ Move(1)
    \/ Crash(1)

SpecCrash == InitBound /\ [][NextCrash]_vars

\* ---- one caller of dump and load, the dumper or the write may fail -------
NextFail ==
    \/ CallDump(1, MaxCalls)
    \/ CallLoad(1, MaxCalls)
    \/ CheckFuncOk(1)
    \/ ExistsSkip(1)
    \/ ExistsProceed(1)
    \/ LoadNotFound(1)
    \/ LoadFound(1)
    \/ EncodeObj(1)
    \/ EncodeFail(1)
    \/ OpenWrite(1)
    \/ WriteChunk(1)
    \/ WriteFail(1)
    \/ CloseWrite(1)
    \/ OpenRead(1)
    \/ ReadAll(1)
    \/ DecompressFail(1)
    \/ DecompressOk(1)
    \/ DecodeOk(1)
    \/ DecodeFail(1)

SpecFail == InitBound /\ [][NextFail]_vars

\* ---- one caller of dump, with interruptions -------------------------------
NextDumpCrash ==
    \/ CallDump(1, MaxCalls)
    \/ CheckFuncOk(1)
    \/ ExistsSkip(1)
    \/ ExistsProceed(1)
    \/ EncodeObj(1)
    \/ OpenWrite(1)
    \/ WriteChunk(1)
    \/ CloseWrite(1)
    \/ Crash(1)

SpecDumpCrash == InitBound /\ [][NextDumpCrash]_vars

\* ---- two callers on the same path ---------------------------------------
\* two safe_dump calls race
NextRace ==
    \E i \in Procs :
        \/ CallSafeDump(i, 1)
        \/ CheckFuncOk(i)
        \/ ExistsProceed(i)
        \/ EncodeObj(i)
        \/ OpenWrite(i)
        \/ WriteChunk(i)
        \/ CloseWrite(i)
        \/ Move(i)
        \/ MoveFail(i)

SpecRace == InitBound /\ [][NextRace]_vars

\* two dump calls race
NextDumpRace ==
    \E i \in Procs :
        \/ CallDump(i, 1)
        \/ CheckFuncOk(i)
        \/ ExistsSkip(i)
        \/ ExistsProceed(i)
        \/ EncodeObj(i)
        \/ OpenWrite(i)
        \/ WriteChunk(i)
        \/ CloseWrite(i)

SpecDumpRace == InitBound /\ [][NextDumpRace]_vars

\* process 1 calls safe_dump while process 2 calls load
NextLoadRace ==
    \/ CallSafeDump(1, 1)
    \/ CallLoad(2, 1)
    \/ \E i \in Procs :
        \/ CheckFuncOk(i)
        \/ ExistsProceed(i)
        \/ EncodeObj(i)
        \/ OpenWrite(i)
        \/ WriteChunk(i)
        \/ CloseWrite(i)
        \/ Move(i)
        \/ LoadNotFound(i)
        \/ LoadFound(i)
        \/ OpenRead(i)
        \/ ReadAll(i)
        \/ DecompressFail(i)
        \/ DecompressOk(i)
        \/ DecodeOk(i)
        \/ DecodeFail(i)

SpecLoadRace == InitBound /\ [][NextLoadRace]_vars

\* ---- properties ---------------------------------------------------------
\* the call of process i has returned or raised
Done(i) == pc[i] = "idle" /\ cur[i].op # "none"

\* the bytes the running or last call of process i writes
NewBytes(i) == Written(codec[cur[i].op], cur[i].obj, cur[i].compress)

\* the bytes the call before cur wrote
PrevBytes(i) == Written(codec[prev[i].op], prev[i].obj, prev[i].compress)

\* the dumper and the loader bound form a codec with decode(encode(v)) = v
RoundTripCodec == /\ Family(codec["dump"]) \in {"pickle", "raw"}
                  /\ Family(codec["load"]) = Family(codec["dump"])

\* C1: during and after a safe_dump, interrupted or not, p holds either the
\* content it had when the call started (or is still absent) or the complete
\* new bytes; p changes only once the call has written p.tmp in full and
\* renamed it, so a truncated file can only be p.tmp.
C1_SafeDumpAtomic ==
    cur[1].op = "safe_dump" =>
        /\ Content("p") \in {pre[1].p, NewBytes(1)}
        /\ Content("p") # pre[1].p =>
              /\ trace[1][Len(trace[1])] = "rename"
              /\ Len(SelectSeq(trace[1], LAMBDA e : e = "write")) = Len(NewBytes(1))

C1_Witness ==
    /\ cur[1].op = "safe_dump"
    /\ ret[1].kind = "Interrupted"
    /\ pre[1].p # NoFile
    /\ Content("p") = pre[1].p
    /\ Exists("p.tmp")
    /\ off[1] > 0
    /\ Len(Content("p.tmp")) < Len(NewBytes(1))

\* C2: a dump with overwrite=false on an existing path changes neither p nor
\* p.tmp, only checks the existence of p, and returns None (Skipped); after
\* dump(X, p) wrote p, dump(Y, p, overwrite=false) leaves X's bytes in p.
C2_SkipLeavesFile ==
    (/\ cur[1].op = "dump"
     /\ ~cur[1].overwrite
     /\ pre[1].p # NoFile
     /\ IsFunction(codec["dump"]))
    => /\ Content("p") = pre[1].p
       /\ Content("p.tmp") = pre[1].tmp
       /\ \A k \in 1..Len(trace[1]) : trace[1][k] = "exists"
       /\ Done(1) => ret[1] = Outcome("Skipped", <<>>)
       /\ (prev[1].op = "dump" /\ prev[1].kind = "Bytes") => Content("p") = PrevBytes(1)

C2_Witness ==
    /\ Done(1)
    /\ cur[1].op = "dump"
    /\ ~cur[1].overwrite
    /\ ret[1].kind = "Skipped"
    /\ prev[1].op = "dump"
    /\ prev[1].kind = "Bytes"
    /\ prev[1].obj # cur[1].obj
    /\ Content("p") = PrevBytes(1)

\* the call before cur was dump(v, p) with the default options and returned
\* (bytes or None), and cur is a finished load(p) with the default options
DumpThenLoadDefault ==
    /\ RoundTripCodec
    /\ prev[1].op = "dump"
    /\ prev[1].compress = DefaultCompress
    /\ prev[1].overwrite = DefaultOverwrite
    /\ prev[1].kind \in {"Bytes", "Skipped"}
    /\ cur[1].op = "load"
    /\ cur[1].compress = DefaultDecompress
    /\ Done(1)

\* C3 as stated: dump(v, p) then load(p), both with default options, returns v
\* for every path p.
C3_Original == DumpThenLoadDefault => ret[1] = Outcome("Value", prev[1].obj)

\* C3: dump(v, p) then load(p), both with default options, returns v when
\* the dump wrote the file, that is when p did not exist before the dump.
C3_DumpLoadRoundTrip ==
    (DumpThenLoadDefault /\ prev[1].kind = "Bytes")
    => ret[1] = Outcome("Value", prev[1].obj)

C3_Witness ==
    /\ DumpThenLoadDefault
    /\ prev[1].kind = "Bytes"
    /\ ret[1] = Outcome("Value", prev[1].obj)

\* C4: a safe_dump with a bound function never skips and, when nothing
\* fails, returns with p holding exactly the new bytes and p.tmp gone,
\* whatever p and p.tmp held before; a following load with the matching
\* decompress flag returns the object.
C4_SafeDumpReplaces ==
    /\ (cur[1].op = "safe_dump" /\ Done(1) /\ IsFunction(codec["safe_dump"]))
       => /\ ret[1] = Outcome("Bytes", NewBytes(1))
          /\ Content("p") = NewBytes(1)
          /\ ~Exists("p.tmp")
    /\ (/\ RoundTripCodec
        /\ prev[1].op = "safe_dump"
        /\ prev[1].kind = "Bytes"
        /\ cur[1].op = "load"
        /\ cur[1].compress = prev[1].compress
        /\ Done(1))
       => ret[1] = Outcome("Value", prev[1].obj)

C4_Witness ==
    /\ cur[1].op = "safe_dump"
    /\ Done(1)
    /\ ret[1].kind = "Bytes"
    /\ pre[1].p \notin {NoFile, NewBytes(1)}
    /\ pre[1].tmp # NoFile
    /\ Content("p") = NewBytes(1)

\* C5 as stated: when two safe_dump calls race on p, both return without
\* error and p ends with the complete bytes of the call that renamed last.
C5_RaceLastRenameWins ==
    (\A i \in Procs : Done(i) /\ cur[i].op = "safe_dump")
    => /\ \A i \in Procs : ret[i].kind = "Bytes"
       /\ lastMove \in Procs
       /\ Content("p") = NewBytes(lastMove)

\* C6: the bytes a load reads while a safe_dump runs are the complete content
\* p had before the safe_dump or the complete new bytes.
C6_LoadSeesWholeFile ==
    pc[2] = "decompress" =>
        b[2] \in {IF cur[1].op = "safe_dump" THEN pre[1].p ELSE Content("p")}
                 \cup {NewBytes(1) : x \in {y \in {1} : cur[1].op = "safe_dump"}}

C6_Witness ==
    /\ pc[2] = "decompress"
    /\ pc[1] = "write"
    /\ off[1] > 0
    /\ Target(1) = "p.tmp"
    /\ b[2] = pre[1].p
    /\ b[2] # NewBytes(1)

\* the call before cur was a dump that wrote the file, and cur is a
\* finished load of it
DumpThenLoad ==
    /\ RoundTripCodec
    /\ prev[1].op = "dump"
    /\ prev[1].kind = "Bytes"
    /\ cur[1].op = "load"
    /\ Done(1)

\* C7 as stated: compress=true then decompress=true recovers the object, and
\* a load whose decompress flag differs from the compress flag of the dump
\* always raises a decode error.
C7_Original ==
    DumpThenLoad =>
        /\ (prev[1].compress /\ cur[1].compress) => ret[1] = Outcome("Value", prev[1].obj)
        /\ prev[1].compress # cur[1].compress => ret[1].kind = "DecodeError"

\* C7: compress=true then decompress=true recovers the object.  With
\* mismatched flags the load raises a decode error exactly when zlib or the
\* loader rejects the bytes it is given, which is always the case for the
\* pickle codec; a loader that accepts the bytes returns what it decodes from
\* them (the still compressed bytes, or the payload of an object that is
\* itself a zlib stream) without any error.
C7_CompressFlags ==
    DumpThenLoad =>
        LET w == PrevBytes(1)
            f == codec["load"]
        IN /\ (prev[1].compress /\ cur[1].compress) => ret[1] = Outcome("Value", prev[1].obj)
           /\ (prev[1].compress /\ ~cur[1].compress) =>
                 IF Decodable(f, w) THEN ret[1] = Outcome("Value", Decode(f, w))
                 ELSE ret[1].kind = "DecodeError"
           /\ (~prev[1].compress /\ cur[1].compress) =>
                 IF ValidZ(w) /\ Decodable(f, Decompress(w))
                 THEN ret[1] = Outcome("Value", Decode(f, Decompress(w)))
                 ELSE ret[1].kind = "DecodeError"
           /\ (f = "pickle_loads" /\ prev[1].compress # cur[1].compress) =>
                 ret[1].kind = "DecodeError"

C7_Witness ==
    /\ DumpThenLoad
    /\ prev[1].compress
    /\ ~cur[1].compress
    /\ codec["load"] = "pickle_loads"
    /\ ret[1].kind = "DecodeError"

\* C8 as stated: after dump(v, p, compress=false, overwrite=true) the bytes
\* of p are the dumper's output for v, and load(p) with no further options
\* returns v.
C8_ScenarioA ==
    /\ (/\ cur[1].op = "dump"
        /\ ~cur[1].compress
        /\ cur[1].overwrite
        /\ Done(1)
        /\ codec["dump"] # NotAFunction)
       => Content("p") = Encode(codec["dump"], cur[1].obj)
    /\ (/\ DumpThenLoad
        /\ ~prev[1].compress
        /\ prev[1].overwrite
        /\ cur[1].compress = DefaultDecompress)
       => ret[1] = Outcome("Value", prev[1].obj)

\* C9 as stated: binding validates, so no operation bound to something that
\* is not a function can be obtained.
C9_Original == \A o \in Ops : codec[o] # NotAFunction

\* C9: binding does not validate: a value that is not a function is bound
\* without error, and every call of the operation so bound stops at the
\* check at the entry of the call and raises the TypeError there.
C9_ValidatesAtCall ==
    (cur[1].op # "none" /\ codec[cur[1].op] = NotAFunction)
    => /\ pc[1] \in {"check", "idle"}
       /\ Done(1) => ret[1].kind = "TypeError"

C9_Witness ==
    /\ Done(1)
    /\ codec[cur[1].op] = NotAFunction
    /\ ret[1].kind = "TypeError"
    /\ ncalls[1] = MaxCalls

\* C10: a call of dump, safe_dump or load whose bound function is not a
\* function raises TypeError having done no existence check, open, read,
\* write or rename, and p and p.tmp are as they were, whether or not p
\* exists and whatever the overwrite flag.
C10_ConfigErrorBeforeIO ==
    (cur[1].op # "none" /\ codec[cur[1].op] = NotAFunction)
    => /\ trace[1] = <<>>
       /\ Content("p") = pre[1].p
       /\ Content("p.tmp") = pre[1].tmp
       /\ Done(1) => ret[1] = Outcome("TypeError", <<>>)

C10_Witness ==
    /\ Done(1)
    /\ cur[1].op = "dump"
    /\ ~cur[1].overwrite
    /\ pre[1].p # NoFile
    /\ codec["dump"] = NotAFunction
    /\ ret[1].kind = "TypeError"
    /\ trace[1] = <<>>


\* number of occurrences of ev in the operations of the call of process i
Count(i, ev) == Len(SelectSeq(trace[i], LAMBDA e : e = ev))

\* C11: a load of a path that does not exist only tests its existence: it
\* opens and reads nothing, does not call the loader, leaves p and p.tmp as
\* they were and raises the ValueError.
C11_LoadMissingRaises ==
    (cur[1].op = "load" /\ pre[1].p = NoFile /\ codec["load"] # NotAFunction)
    => /\ \A k \in 1..Len(trace[1]) : trace[1][k] = "exists"
       /\ fd[1] = 0
       /\ Content("p") = NoFile
       /\ Content("p.tmp") = pre[1].tmp
       /\ Done(1) => ret[1] = Outcome("ValueError", <<>>)

C11_Witness ==
    /\ cur[1].op = "load"
    /\ pre[1].p = NoFile
    /\ Done(1)
    /\ ret[1].kind = "ValueError"
    /\ trace[1] = <<"exists">>

\* C12: a dump with overwrite=true on an existing path that returns leaves in
\* p exactly the new bytes (compressed iff compress), nothing of the previous
\* content, also when the previous content was longer.
C12_OverwriteReplaces ==
    (/\ cur[1].op = "dump"
     /\ cur[1].overwrite
     /\ pre[1].p # NoFile
     /\ Done(1)
     /\ ret[1].kind = "Bytes")
    => /\ Content("p") = NewBytes(1)
       /\ Content("p") = IF cur[1].compress
                         THEN Compress(Encode(codec["dump"], cur[1].obj))
                         ELSE Encode(codec["dump"], cur[1].obj)

C12_Witness ==
    /\ cur[1].op = "dump"
    /\ cur[1].overwrite
    /\ Done(1)
    /\ ret[1].kind = "Bytes"
    /\ pre[1].p # NoFile
    /\ Len(pre[1].p) > Len(NewBytes(1))
    /\ Content("p") = NewBytes(1)

\* C13: dump and safe_dump return the bytes they wrote: the dumper's output
\* when compress is false, its compression when compress is true; they are
\* the content of p when the call returns.
C13_ReturnsWrittenBytes ==
    (cur[1].op \in {"dump", "safe_dump"} /\ Done(1) /\ ret[1].kind = "Bytes")
    => /\ ret[1].val = Content("p")
       /\ ret[1].val = IF cur[1].compress
                       THEN Compress(Encode(codec[cur[1].op], cur[1].obj))
                       ELSE Encode(codec[cur[1].op], cur[1].obj)

C13_Witness ==
    /\ cur[1].op = "safe_dump"
    /\ Done(1)
    /\ ret[1].kind = "Bytes"
    /\ cur[1].compress
    /\ ret[1].val = Content("p")
    /\ ret[1].val = Compress(Encode(codec["safe_dump"], cur[1].obj))


\* C14: a call opens at most one handle and reads at most once; the handle
\* is open only between its open and its close, a call that returned bytes
\* wrote all of them, a load that returned a value read once, and no handle
\* is open once the call has returned or raised, whatever failed.
C14_HandleClosed ==
    /\ Count(1, "open") <= 1
    /\ Count(1, "read") <= 1
    /\ Count(1, "close") <= Count(1, "open")
    /\ fd[1] # 0 <=> (Count(1, "open") = 1 /\ Count(1, "close") = 0)
    /\ Done(1) => fd[1] = 0
    /\ (Done(1) /\ ret[1].kind = "Bytes") => Count(1, "write") = Len(ret[1].val)
    /\ (Done(1) /\ ret[1].kind = "Value") => Count(1, "read") = 1

C14_Witness ==
    /\ Done(1)
    /\ cur[1].op = "dump"
    /\ ret[1].kind = "IOError"
    /\ Count(1, "write") > 0
    /\ Count(1, "open") = 1
    /\ Count(1, "close") = 1
    /\ fd[1] = 0


\* C15: from the moment dump has opened p, p holds the bytes written so far
\* and nothing else: the previous content is lost at the open, and a dump
\* interrupted before its last byte leaves a truncated file that is neither
\* the previous content nor the complete new bytes.
C15_InterruptedDumpTruncates ==
    (cur[1].op = "dump" /\ Count(1, "open") = 1)
    => Content("p") = SubSeq(NewBytes(1), 1, Count(1, "write"))

C15_Witness ==
    /\ cur[1].op = "dump"
    /\ cur[1].overwrite
    /\ pre[1].p # NoFile
    /\ ret[1].kind = "Interrupted"
    /\ Count(1, "open") = 1
    /\ Content("p") \notin {pre[1].p, NewBytes(1)}


\* C16: safe_dump calls the dumper, opens p.tmp and renames at most once; it
\* renames only after every byte was written and the file closed; when the
\* dumper or the write fails the call raises that error without renaming
\* and p is as it was before the call.
C16_RenameAfterWrite ==
    cur[1].op = "safe_dump" =>
        /\ Count(1, "dumper") <= 1
        /\ Count(1, "open") <= 1
        /\ Count(1, "rename") <= 1
        /\ Count(1, "rename") = 1 =>
              /\ Count(1, "write") = Len(NewBytes(1))
              /\ Count(1, "close") = 1
        /\ (Done(1) /\ ret[1].kind \in {"EncodeError", "IOError"}) =>
              /\ Count(1, "rename") = 0
              /\ Content("p") = pre[1].p

C16_Witness ==
    /\ cur[1].op = "safe_dump"
    /\ Done(1)
    /\ ret[1].kind = "IOError"
    /\ Count(1, "write") > 0
    /\ Count(1, "rename") = 0
    /\ pre[1].p # NoFile
    /\ Content("p") = pre[1].p
    /\ Exists("p.tmp")

\* C17: whatever p.tmp an earlier interrupted safe_dump left, a safe_dump
\* that returns ends with p holding its complete new bytes and no p.tmp, and
\* through any sequence of interrupted, failed and completed safe_dump
\* calls p only ever holds its initial content or the complete bytes of a
\* dumped object.
C17_StrayTempHarmless ==
    /\ (cur[1].op = "safe_dump" /\ Done(1) /\ ret[1].kind = "Bytes")
       => /\ Content("p") = NewBytes(1)
          /\ ~Exists("p.tmp")
    /\ Content("p") \in InitP \cup {Written(codec["safe_dump"], v, c) : v \in Values, c \in BOOLEAN}

C17_Witness ==
    /\ prev[1].op = "safe_dump"
    /\ prev[1].kind = "Interrupted"
    /\ pre[1].tmp \notin {NoFile, <<ZHDR>>}
    /\ cur[1].op = "safe_dump"
    /\ Done(1)
    /\ ret[1].kind = "Bytes"
    /\ Content("p") = NewBytes(1)
    /\ Content("p") # pre[1].tmp
    /\ ~Exists("p.tmp")


\* C18 as stated: when two dump calls with overwrite=false race on a path
\* that does not exist, at most one of them writes the file and the other
\* returns None (Skipped).
C18_AtMostOneWrites ==
    (/\ \A i \in Procs : cur[i].op = "dump" /\ ~cur[i].overwrite
     /\ \E i \in Procs : pre[i].p = NoFile)
    => /\ Cardinality({i \in Procs : Count(i, "open") > 0}) <= 1
       /\ (\A i \in Procs : Done(i)) => \E i \in Procs : ret[i].kind = "Skipped"

====
